---- MODULE Spec2Model ----
(***************************************************************************)
(* Model of app.py, the Streamlit "AI Search Optimization Evaluator".      *)
(*                                                                         *)
(* Text.  A Python str is modelled as a sequence of segments.  A segment   *)
(* is either one character that matters to the code (a digit, a line       *)
(* break, a blank) or a run of other characters that holds no digit and no *)
(* line break and neither starts nor ends with white space.  Characters    *)
(* outside ASCII are written by their code point: "U+00B2" is SUPERSCRIPT  *)
(* TWO, "U+0663" is ARABIC-INDIC DIGIT THREE.  String concatenation is \o. *)
(***************************************************************************)
EXTENDS Integers, Sequences, FiniteSets, TLC

VARIABLES
    pc,             \* position of the script execution
    execs,          \* script executions started in this process
    loads,          \* times pipeline(...) was constructed in this process
    generator,      \* identity of the instance bound to `generator`
    content_mode,   \* st.radio value
    url,            \* st.text_input value
    input_content,  \* acquired content
    evaluate,       \* st.button value of this execution
    idx,            \* position of `for p in principles`
    results,        \* local list of evaluate_content
    calls,          \* generator calls made by this execution, in order
    raisedAt,       \* index of the call on which the service raised, 0 if none
    error,          \* exception that ended this execution, "none" if none
    scores,         \* module-level `scores`, NoValue while unassigned
    display,        \* what the output block rendered, NoDisplay if nothing
    response,       \* outcomes of the fetches of this execution, in order
    reply,          \* input of the score-extraction run
    extracted,      \* its outcome
    content,        \* content of the echo run
    cont_a,         \* continuation generated in the first echo run
    cont_b,         \* continuation generated in the second echo run
    run_a,          \* outcomes of the first echo run, one per principle
    run_b           \* outcomes of the second echo run

vars == <<pc, execs, loads, generator, content_mode, url, input_content,
          evaluate, idx, results, calls, raisedAt, error, scores, display,
          response, reply, extracted, content, cont_a, cont_b, run_a, run_b>>

appVars == <<execs, loads, generator, content_mode, url, input_content,
             evaluate, idx, results, calls, raisedAt, error, scores, display,
             response>>

scoreVars == <<reply, extracted>>

echoVars == <<content, cont_a, cont_b, run_a, run_b>>

NoValue == "NoValue"

\* Nothing of a run on the page.
NoDisplay == [shown |-> FALSE]

(***************************************************************************)
(* Bounds of the model.                                                    *)
(***************************************************************************)
MaxExecs == 2

MaxReplyLen == 4

MaxContLen == 2

(***************************************************************************)
(* Characters and the str methods the code uses.                           *)
(***************************************************************************)
AsciiDigits == <<"0", "1", "2", "3", "4", "5", "6", "7", "8", "9">>

AsciiDigitSet == {AsciiDigits[k] : k \in 1..10}

\* Characters of category Nd outside ASCII that the model uses.
OtherDecimals == {"U+0663"}

\* Characters str.isdigit accepts that are no decimal digits.
NonDecimalDigits == {"U+00B2"}

LineBreaks == {"\n", "\r"}

WhiteSpace == {" ", "\n", "\r"}

isdecimal(c) == c \in AsciiDigitSet \cup OtherDecimals

isdigit(c) == isdecimal(c) \/ c \in NonDecimalDigits

DigitValue(c) ==
    IF c = "U+0663" THEN 3
    ELSE (CHOOSE k \in 1..10 : AsciiDigits[k] = c) - 1

\* str(n) for n in range(0, 11)
str(n) == IF n < 10 THEN <<AsciiDigits[n + 1]>> ELSE <<"1", "0">>

\* sub in line
Contains(line, sub) ==
    \E k \in 1..(Len(line) - Len(sub) + 1) :
        SubSeq(line, k, k + Len(sub) - 1) = sub

RECURSIVE SplitFrom(_, _, _, _)
SplitFrom(s, k, cur, acc) ==
    IF k > Len(s) THEN (IF cur = <<>> THEN acc ELSE Append(acc, cur))
    ELSE IF s[k] \in LineBreaks
    THEN IF s[k] = "\r" /\ k < Len(s) /\ s[k + 1] = "\n"
         THEN SplitFrom(s, k + 2, <<>>, Append(acc, cur))
         ELSE SplitFrom(s, k + 1, <<>>, Append(acc, cur))
    ELSE SplitFrom(s, k + 1, Append(cur, s[k]), acc)

\* str.splitlines()
splitlines(s) == SplitFrom(s, 1, <<>>, <<>>)

\* str.strip()
strip(s) ==
    LET keep == {k \in 1..Len(s) : s[k] \notin WhiteSpace}
    IN  IF keep = {} THEN <<>>
        ELSE SubSeq(s, CHOOSE k \in keep : \A j \in keep : k <= j,
                       CHOOSE k \in keep : \A j \in keep : k >= j)

RECURSIVE DecimalValue(_)
DecimalValue(s) ==
    IF s = <<>> THEN 0
    ELSE 10 * DecimalValue(SubSeq(s, 1, Len(s) - 1)) + DigitValue(s[Len(s)])

\* int(s) for a non-empty s of characters str.isdigit accepts: ValueError
\* unless every character is a decimal digit.
int(s) ==
    IF \A k \in 1..Len(s) : isdecimal(s[k])
    THEN [raised |-> FALSE, value |-> DecimalValue(s)]
    ELSE [raised |-> TRUE, value |-> 0]

(***************************************************************************)
(* The principle catalog.                                                  *)
(***************************************************************************)
RateAndExplain == <<" ", "0", "-", "1", "0", " ", "and explain.">>

principles == <<
    [title |-> "Chunk-Level Retrieval",
     prompt |-> <<"Analyze if the content contains semantically complete chunks that are self-contained and independently understandable. Does each section focus on a single idea? Rate">> \o RateAndExplain],
    [title |-> "Answer Synthesis Optimization",
     prompt |-> <<"Evaluate if the content is structured with a summary followed by elaboration, plain tone, and Q&A format. Rate">> \o RateAndExplain],
    [title |-> "Citation-Worthiness",
     prompt |-> <<"Check if content includes citations, author credentials, accurate claims, and timestamps. Rate">> \o RateAndExplain],
    [title |-> "Topical Breadth & Depth",
     prompt |-> <<"Assess if the content follows a pillar-and-cluster approach, linking to detailed subtopics. Rate">> \o RateAndExplain],
    [title |-> "Multi-Modal Support",
     prompt |-> <<"Evaluate if the content uses HTML tables, descriptive alt text, <figure> markup, and captions for images. Rate">> \o RateAndExplain],
    [title |-> "Authoritativeness Signals",
     prompt |-> <<"Check for expert bylines, original data, external mentions, structured metadata, and citations. Rate">> \o RateAndExplain],
    [title |-> "Personalization Resilience",
     prompt |-> <<"Analyze if content targets multiple personas, intents, and locales with segmented sections. Rate">> \o RateAndExplain],
    [title |-> "AI Crawlability & Indexability",
     prompt |-> <<"Evaluate if content is server-rendered, allows AI bots via robots.txt, and avoids noindex/nosnippet. Rate">> \o RateAndExplain] >>

NPrinciples == Len(principles)

max_new_tokens == 256

(***************************************************************************)
(* evaluate_content, statement by statement.                               *)
(***************************************************************************)
\* A plausible slip: the content is stripped before it is sent.
full_prompt_stripped(c, p) ==
    <<"Content:", "\n">> \o strip(c) \o <<"\n", "\n", "Instruction:", "\n">> \o p.prompt

\* f"Content:\n{content}\n\nInstruction:\n{p['prompt']}"
full_prompt(c, p) ==
    <<"Content:", "\n">> \o c \o <<"\n", "\n", "Instruction:", "\n">> \o p.prompt

\* any(str(n) in line for n in range(0, 11))
line_matches(line) == \E n \in 0..10 : Contains(line, str(n))

Sentinel == <<"Score:", " ", "0">>

\* A plausible slip: the last matching line instead of the first.
RECURSIVE first_match_last(_, _)
first_match_last(lines, k) ==
    IF k > Len(lines) THEN 0
    ELSE IF first_match_last(lines, k + 1) # 0 THEN first_match_last(lines, k + 1)
    ELSE IF line_matches(lines[k]) THEN k
    ELSE 0

\* Position of the first line from k on that the test accepts, 0 if none:
\* what next() takes from the generator expression.
RECURSIVE first_match(_, _)
first_match(lines, k) ==
    IF k > Len(lines) THEN 0
    ELSE IF line_matches(lines[k]) THEN k
    ELSE first_match(lines, k + 1)

\* next((line for line in reply.splitlines() if ...), "Score: 0"), with the
\* position of the line in reply.splitlines() (0 for the default).
selection(r) ==
    LET lines == splitlines(r)
        n == first_match(lines, 1)
    IN  [no |-> n, line |-> IF n = 0 THEN Sentinel ELSE lines[n]]

score_line(r) == selection(r).line

\* int(''.join(filter(str.isdigit, score_line)))
\*     if any(char.isdigit() for char in score_line) else 0
score_of(line) ==
    IF \E k \in 1..Len(line) : isdigit(line[k])
    THEN int(SelectSeq(line, isdigit))
    ELSE [raised |-> FALSE, value |-> 0]

\* The two extraction statements applied to one reply.
extract(r) == score_of(score_line(r))

\* A plausible slip: the new entry is put in front.
append_result_front(res, p, score, r) ==
    <<[Principle |-> p.title, Score |-> score, Explanation |-> strip(r)]>> \o res

\* results.append({"Principle": ..., "Score": ..., "Explanation": ...})
append_result(res, p, score, r) ==
    Append(res, [Principle |-> p.title, Score |-> score, Explanation |-> strip(r)])

\* The loop body after the generator call has returned r.  The ValueError
\* of int() leaves the function, so nothing is appended.
iteration(res, p, r) ==
    LET sc == extract(r)
    IN  IF sc.raised THEN [raised |-> TRUE, results |-> res]
        ELSE [raised |-> FALSE, results |-> append_result(res, p, sc.value, r)]

(***************************************************************************)
(* scrape_url.  `fetch` is what requests.get, raise_for_status and the     *)
(* text extraction came to: the joined visible text, or the exception.     *)
(***************************************************************************)
\* A plausible slip: a failed fetch yields no content.
scrape_url_silent(u, fetch) == IF fetch.ok THEN fetch.text ELSE <<>>

scrape_url(u, fetch) ==
    IF fetch.ok THEN fetch.text
    ELSE <<"Error scraping URL:", " ">> \o fetch.exc

(***************************************************************************)
(* The output block.                                                       *)
(***************************************************************************)
\* A plausible slip: either condition is enough.
should_evaluate_either(ev, c) == ev \/ c # <<>>

\* if evaluate and input_content:
should_evaluate(ev, c) == ev /\ c # <<>>

RECURSIVE sum(_)
sum(xs) == IF xs = <<>> THEN 0 ELSE xs[1] + sum(Tail(xs))

\* A plausible slip: the average is cut, not rounded.
format_1f_cut(total, n) == (10 * total) \div n

\* f"{total / n:.1f}" as a number of tenths.  total / n is exact in binary
\* floating point for the n of the catalog, and the format rounds an exact
\* tie to the even digit.
format_1f(total, n) ==
    LET q == (10 * total) \div n
        r == (10 * total) % n
    IN  IF 2 * r > n THEN q + 1
        ELSE IF 2 * r < n THEN q
        ELSE IF q % 2 = 0 THEN q ELSE q + 1

\* Lines 110 to 123 for a returned list sc.
render(sc) ==
    [shown   |-> TRUE,
     table   |-> [k \in 1..Len(sc) |-> [Principle |-> sc[k].Principle, Score |-> sc[k].Score]],
     details |-> sc,
     overall |-> format_1f(sum([k \in 1..Len(sc) |-> sc[k].Score]), Len(sc))]

(***************************************************************************)
(* Inputs of the application: widget values, fetch outcomes and what the   *)
(* text-generation service answers.                                        *)
(***************************************************************************)
Modes == {"Paste Text", "Scrape from URL"}

PastedTexts ==
    { <<>>,
      <<"Plain page text">>,
      <<"Top", " ", "7", " ", "tips">>,
      <<" ", "Intro", "\n", "Body", "\n">> }

Urls == { <<>>, <<"https://example.com/page">> }

FetchOutcomes ==
    { [ok |-> TRUE, text |-> <<>>],
      [ok |-> TRUE, text |-> <<"Heading", "\n", "Paragraph">>],
      [ok |-> FALSE, exc |-> <<"Invalid URL: No host supplied">>],
      [ok |-> FALSE, exc |-> <<"4", "0", "4", " ", "Client Error: Not Found for url">>] }

Score7OutOf10 == <<"Score:", " ", "7", " ", "out of", " ", "1", "0", ".">>

NoScoreLine == <<"No score line here">>

SquaredScore == <<"Score:", " ", "7", "U+00B2">>

\* What generator(full_prompt, ...)[0]['generated_text'] can be: the prompt
\* followed by a continuation, or any other text.
ServiceReplies(prompt) ==
    { prompt \o <<"\n", "Score:", " ", "7", "/", "1", "0">>,
      Score7OutOf10, SquaredScore }

(***************************************************************************)
(* The application.  Streamlit runs the script top to bottom once per user *)
(* interaction; the process outlives the executions.  Executions do not     *)
(* overlap: the next one starts when the current one has ended.            *)
(***************************************************************************)
ScoreIdle ==
    /\ reply = NoValue
    /\ extracted = NoValue

EchoIdle ==
    /\ content = NoValue
    /\ cont_a = NoValue
    /\ cont_b = NoValue
    /\ run_a = NoValue
    /\ run_b = NoValue

AppIdle ==
    /\ execs = 0
    /\ loads = 0
    /\ generator = NoValue
    /\ content_mode = NoValue
    /\ url = NoValue
    /\ input_content = NoValue
    /\ evaluate = FALSE
    /\ idx = 0
    /\ results = <<>>
    /\ calls = <<>>
    /\ raisedAt = 0
    /\ error = "none"
    /\ scores = NoValue
    /\ display = NoDisplay
    /\ response = <<>>

Init ==
    /\ pc = "start"
    /\ AppIdle
    /\ ScoreIdle
    /\ EchoIdle

\* Lines 8 to 89 and the test of line 107: load_model() runs, the widgets
\* give their values, the content is acquired.
RunScript(mode, text, u, fetch, pressed) ==
    /\ pc \in {"start", "done", "failed"}
    /\ execs < MaxExecs
    /\ execs' = execs + 1
    /\ loads' = loads + 1
    /\ generator' = loads + 1
    /\ content_mode' = mode
    /\ url' = IF mode = "Paste Text" THEN NoValue ELSE u
    /\ response' = IF mode = "Paste Text" \/ u = <<>> THEN <<>> ELSE <<fetch>>
    /\ input_content' =
          IF mode = "Paste Text" THEN text
          ELSE IF u # <<>> THEN scrape_url(u, fetch) ELSE <<>>
    /\ evaluate' = pressed
    /\ pc' = IF should_evaluate(evaluate', input_content') THEN "eval" ELSE "done"
    /\ idx' = IF should_evaluate(evaluate', input_content') THEN 1 ELSE 0
    /\ results' = <<>>
    /\ calls' = <<>>
    /\ raisedAt' = 0
    /\ error' = "none"
    /\ scores' = NoValue
    /\ display' = NoDisplay
    /\ UNCHANGED <<scoreVars, echoVars>>

\* The call of line 96 for principles[idx].
TheCall ==
    [principle      |-> idx,
     prompt         |-> full_prompt(input_content, principles[idx]),
     max_new_tokens |-> max_new_tokens,
     instance       |-> generator]

\* One pass of the loop body, lines 95 to 103: the service returns r.
Iterate ==
    /\ pc = "eval"
    /\ idx <= NPrinciples
    /\ \E r \in ServiceReplies(TheCall.prompt) :
         LET out == iteration(results, principles[idx], r)
         IN  /\ results' = out.results
             /\ pc' = IF out.raised THEN "failed" ELSE "eval"
             /\ error' = IF out.raised THEN "ValueError" ELSE "none"
             /\ idx' = IF out.raised THEN idx ELSE idx + 1
    /\ calls' = Append(calls, TheCall)
    /\ UNCHANGED <<execs, loads, generator, content_mode, url, input_content,
                   evaluate, raisedAt, scores, display, response,
                   scoreVars, echoVars>>

\* A plausible slip: the failure is swallowed and the loop goes on.
GenerateRaises_isolated ==
    /\ pc = "eval"
    /\ idx <= NPrinciples
    /\ calls' = Append(calls, TheCall)
    /\ raisedAt' = idx
    /\ results' = append_result(results, principles[idx], 0, <<>>)
    /\ idx' = idx + 1
    /\ UNCHANGED <<pc, error, execs, loads, generator, content_mode, url,
                   input_content, evaluate, scores, display, response,
                   scoreVars, echoVars>>

\* The call of line 96 raises: nothing catches it in evaluate_content or in
\* the output block, so the execution ends there.
GenerateRaises ==
    /\ pc = "eval"
    /\ idx <= NPrinciples
    /\ calls' = Append(calls, TheCall)
    /\ raisedAt' = idx
    /\ pc' = "failed"
    /\ error' = "GenerationError"
    /\ UNCHANGED <<idx, results, execs, loads, generator, content_mode, url,
                   input_content, evaluate, scores, display, response,
                   scoreVars, echoVars>>

\* The loop is exhausted: line 104 returns, lines 109 to 123 render.
ReturnAndRender ==
    /\ pc = "eval"
    /\ idx = NPrinciples + 1
    /\ scores' = results
    /\ display' = render(results)
    /\ pc' = "done"
    /\ UNCHANGED <<idx, results, calls, raisedAt, error, execs, loads,
                   generator, content_mode, url, input_content, evaluate,
                   response, scoreVars, echoVars>>

Next ==
    \/ \E text \in PastedTexts, pressed \in BOOLEAN :
            RunScript("Paste Text", text, NoValue, NoValue, pressed)
    \/ \E u \in Urls, fetch \in FetchOutcomes, pressed \in BOOLEAN :
            RunScript("Scrape from URL", NoValue, u, fetch, pressed)
    \/ Iterate
    \/ GenerateRaises
    \/ ReturnAndRender

Spec == Init /\ [][Next]_vars

(***************************************************************************)
(* Score extraction on its own: the loop body after the call, applied to   *)
(* every reply up to MaxReplyLen characters and to the replies the         *)
(* description of the program works through.                               *)
(***************************************************************************)
ReplyAlphabet == {"7", "1", "0", "x", " ", "\n", "\r", "U+00B2", "U+0663"}

SevenOfTenIn2024 ==
    <<"Rated", " ", "7", "/", "1", "0", " ", "based on", " ", "2", "0", "2", "4", " ", "data">>

ReplyInputs ==
    UNION {[1..n -> ReplyAlphabet] : n \in 0..MaxReplyLen}
        \cup {Score7OutOf10, NoScoreLine, SquaredScore, SevenOfTenIn2024}

InitScore ==
    /\ pc = "reply"
    /\ reply \in ReplyInputs
    /\ extracted = NoValue
    /\ AppIdle
    /\ EchoIdle

ExtractScore ==
    /\ pc = "reply"
    /\ extracted' = iteration(<<>>, principles[1], reply)
    /\ pc' = "extracted"
    /\ UNCHANGED <<reply, appVars, echoVars>>

NextScore == ExtractScore

SpecScore == InitScore /\ [][NextScore]_vars

(***************************************************************************)
(* The echo behaviour: the service returns the prompt followed by a        *)
(* continuation.  One content, two continuations, all principles.          *)
(***************************************************************************)
ContAlphabet == {"7", "x", "\n", "U+00B2"}

Continuations == UNION {[1..n -> ContAlphabet] : n \in 0..MaxContLen}

EchoContents ==
    { <<>>,
      <<"Plain page text">>,
      <<"Top", " ", "7", " ", "tips">>,
      <<"Area in m", "U+00B2">>,
      <<"Intro", "\n", "7", "U+00B2">> }

\* The loop of evaluate_content over a service that echoes the prompt and
\* adds c: per principle the selected line and the outcome of the extraction.
echo_run(t, c) ==
    [k \in 1..NPrinciples |->
        LET sel == selection(full_prompt(t, principles[k]) \o c)
            e == score_of(sel.line)
        IN  [line_no |-> sel.no, raised |-> e.raised, score |-> e.value]]

InitEcho ==
    /\ pc = "prompt"
    /\ content \in EchoContents
    /\ cont_a \in Continuations
    /\ cont_b \in Continuations
    /\ run_a = NoValue
    /\ run_b = NoValue
    /\ AppIdle
    /\ ScoreIdle

EchoRuns ==
    /\ pc = "prompt"
    /\ run_a' = echo_run(content, cont_a)
    /\ run_b' = echo_run(content, cont_b)
    /\ pc' = "echoed"
    /\ UNCHANGED <<content, cont_a, cont_b, appVars, scoreVars>>

NextEcho == EchoRuns

SpecEcho == InitEcho /\ [][NextEcho]_vars

(***************************************************************************)
(* Properties.                                                             *)
(***************************************************************************)
ScoresOf(rows) == [k \in 1..Len(rows) |-> rows[k].Score]

HasDigit0to9(line) ==
    \E k \in 1..Len(line) :
        line[k] \in {"0", "1", "2", "3", "4", "5", "6", "7", "8", "9"}

RECURSIVE Pow10(_)
Pow10(n) == IF n = 0 THEN 1 ELSE 10 * Pow10(n - 1)

\* The integer whose decimal digits are the digit characters of line, left
\* to right.
ConcatenatedDigits(line) ==
    LET ds == SelectSeq(line, isdigit)
    IN  sum([k \in 1..Len(ds) |-> DigitValue(ds[k]) * Pow10(Len(ds) - k)])

FirstDigitLine(r) ==
    LET lines == splitlines(r)
    IN  IF \E k \in 1..Len(lines) : HasDigit0to9(lines[k])
        THEN lines[CHOOSE k \in 1..Len(lines) :
                      /\ HasDigit0to9(lines[k])
                      /\ \A j \in 1..(k - 1) : ~HasDigit0to9(lines[j])]
        ELSE <<>>

\* The text of c before its first line break.
FirstLineOf(c) ==
    IF \E k \in 1..Len(c) : c[k] \in LineBreaks
    THEN SubSeq(c, 1, (CHOOSE k \in 1..Len(c) :
                          /\ c[k] \in LineBreaks
                          /\ \A j \in 1..(k - 1) : c[j] \notin LineBreaks) - 1)
    ELSE c

\* Position, among the lines of an echoed prompt, of the line that holds the
\* instruction text.
InstructionLineNo(t) ==
    Len(splitlines(<<"Content:", "\n">> \o t \o <<"\n", "\n", "Instruction:", "\n">>)) + 1

\* C1: a list that evaluate_content returns has 8 entries, and entry i
\* carries the title of the i-th principle of the catalog.
C1_OnePerPrincipleInOrder ==
    scores # NoValue =>
        /\ Len(scores) = 8
        /\ \A i \in 1..8 : scores[i].Principle = principles[i].title

C1_Witness ==
    /\ pc = "done"
    /\ scores # NoValue
    /\ scores[3].Principle = "Citation-Worthiness"
    /\ scores[8].Principle = "AI Crawlability & Indexability"

\* C2: whatever the reply, the extraction step completes with an integer
\* score and appends a result; nothing is raised because of the text.
C2_ExtractionAlwaysCompletes ==
    pc = "extracted" =>
        /\ ~extracted.raised
        /\ Len(extracted.results) = 1
        /\ extracted.results[1].Score \in Nat

\* C3: the stored score is the integer formed by the digit characters, left
\* to right, of the first line holding a digit 0-9, and 0 when no line holds
\* one; "Score: 7 out of 10." gives 710.
C3_ScoreIsConcatenatedDigits ==
    (pc = "extracted" /\ ~extracted.raised) =>
        /\ Len(extracted.results) = 1
        /\ extracted.results[1].Score = ConcatenatedDigits(FirstDigitLine(reply))
        /\ reply = Score7OutOf10 => extracted.results[1].Score = 710
        /\ reply = SevenOfTenIn2024 => extracted.results[1].Score = 7102024
        /\ reply = NoScoreLine => extracted.results[1].Score = 0

C3_Witness ==
    /\ pc = "extracted"
    /\ reply = Score7OutOf10
    /\ ~extracted.raised
    /\ extracted.results[1].Score = 710

\* C4: when the service raises on the k-th principle the execution ends
\* there: no list reaches `scores`, nothing is rendered, the k-th call is the
\* last one and every call was made once.
C4_GenerationFailureAborts ==
    raisedAt # 0 =>
        /\ pc = "failed"
        /\ error = "GenerationError"
        /\ scores = NoValue
        /\ ~display.shown
        /\ Len(calls) = raisedAt
        /\ \A k \in 1..Len(calls) : calls[k].principle = k

C4_Witness ==
    /\ raisedAt = 3
    /\ pc = "failed"
    /\ Len(results) = 2
    /\ scores = NoValue

\* C5: in one process the model is constructed once, and every generator
\* call of every execution uses that one instance.
C5_ModelLoadedOnce ==
    /\ loads <= 1
    /\ \A k \in 1..Len(calls) : calls[k].instance = 1

\* C6: the pipeline runs, and anything is rendered, only in an execution in
\* which the button was pressed and the acquired content is not empty.
C6_EvaluationOnlyOnPressAndContent ==
    (pc = "eval" \/ calls # <<>> \/ scores # NoValue \/ display.shown) =>
        /\ evaluate = TRUE
        /\ input_content # NoValue
        /\ input_content # <<>>

C6_Witness ==
    /\ pc = "done"
    /\ evaluate = TRUE
    /\ content_mode = "Paste Text"
    /\ input_content = <<"Plain page text">>
    /\ Len(calls) = 8
    /\ display.shown

\* C7: after a failed fetch the content is a string that starts with
\* "Error scraping URL:"; with the button pressed the pipeline runs over that
\* string as over any content and a completed run has one result per
\* principle.
C7_ScrapeFailureBecomesContent ==
    (response # <<>> /\ ~response[1].ok) =>
        /\ Len(input_content) >= 1
        /\ input_content[1] = "Error scraping URL:"
        /\ evaluate => (pc # "start" /\ (pc = "done" => display.shown))
        /\ ~evaluate => (pc = "done" /\ calls = <<>>)
        /\ \A k \in 1..Len(calls) :
              Contains(calls[k].prompt, input_content)
        /\ scores # NoValue => Len(scores) = 8

C7_Witness ==
    /\ response # <<>>
    /\ ~response[1].ok
    /\ pc = "done"
    /\ Len(scores) = 8
    /\ scores[1].Score = 404

\* What C8 says of the order and the number of the calls.
C8_OnePassInOrder ==
    /\ Len(calls) <= 8
    /\ \A k \in 1..Len(calls) :
          /\ calls[k].principle = k
          /\ calls[k].max_new_tokens = 256
    /\ pc = "eval" => (Len(calls) = idx - 1 /\ Len(results) = idx - 1)
    /\ scores # NoValue => Len(calls) = 8

\* C8 as written: one call per principle in catalog order, each with 256
\* new tokens and the prompt "Content:" + content + "Instruction:" + the
\* principle's prompt.
C8_PromptIsPlainConcatenation ==
    /\ C8_OnePassInOrder
    /\ \A k \in 1..Len(calls) :
          calls[k].prompt =
              <<"Content:">> \o input_content \o <<"Instruction:">> \o principles[k].prompt

\* C8 as amended: one call per principle in catalog order, each with 256
\* new tokens and the prompt "Content:\n" + content + "\n\nInstruction:\n" +
\* the principle's prompt, the content unmodified.
C8_PromptHasLineBreaks ==
    /\ C8_OnePassInOrder
    /\ \A k \in 1..Len(calls) :
          calls[k].prompt =
              <<"Content:", "\n">> \o input_content
                  \o <<"\n", "\n", "Instruction:", "\n">> \o principles[k].prompt

C8_Witness ==
    /\ pc = "done"
    /\ Len(calls) = 8
    /\ input_content = <<" ", "Intro", "\n", "Body", "\n">>
    /\ scores # NoValue

C10_EchoSelectsPromptLine ==
    pc = "echoed" =>
        /\ \A k \in 1..8 : run_a[k].line_no \in 1..InstructionLineNo(content)
        /\ \A k \in 1..8 : run_b[k].line_no \in 1..InstructionLineNo(content)
        /\ FirstLineOf(cont_a) = FirstLineOf(cont_b) => run_a = run_b
        /\ ( /\ ~HasDigit0to9(content)
             /\ \A j \in 1..Len(FirstLineOf(cont_a)) : ~isdigit(FirstLineOf(cont_a)[j]) )
           => \A k \in 1..8 : ~run_a[k].raised /\ run_a[k].score = 10

C10_Witness ==
    /\ pc = "echoed"
    /\ content = <<"Plain page text">>
    /\ cont_a = <<"\n", "7">>
    /\ cont_b = <<"\n", "x">>
    /\ run_a = run_b
    /\ run_a[8].score = 10
    /\ run_a[8].line_no = 5

====
